---- MODULE Spec2Model ----
(***************************************************************************)
(* Model of the rdvp rendezvous-point command (go/cmd/rdvp/main.go):       *)
(* the supervised group of main (signal watcher + root command), the      *)
(* serve and genkey commands, and the helper parseAddrs.                   *)
(*                                                                         *)
(* Go strings are modelled as sequences of tokens: the separators "/",     *)
(* ":" and "," are tokens of their own, every other maximal run of         *)
(* characters is one token ("ip4", "0.0.0.0", "4040", ...).                *)
(***************************************************************************)
EXTENDS FiniteSets, Integers, Sequences, TLC

(***************************************************************************)
(* Bounds of the model.                                                    *)
(***************************************************************************)
\* longest list of listen addresses given to -l
MaxAddrs == 2
\* number of distinct keypairs key generation can yield
NumKeys == 2
\* number of interrupt signals the operating system delivers
MaxSignals == 1

(***************************************************************************)
(* Error values.  kind names the underlying error, wrapped says whether    *)
(* errcode.TODO.Wrap was applied to it.                                    *)
(***************************************************************************)
Err(k) == [kind |-> k, wrapped |-> FALSE]

Nil == Err("nil")

\* context.Canceled
Canceled == Err("Canceled")

\* run.SignalError{Signal: os.Interrupt}
SignalError == Err("Signal")

\* flag.ErrHelp
ErrHelp == Err("ErrHelp")

\* errcode.TODO.Wrap(err): a new error value that is never equal to err
Wrap(e) == [kind |-> e.kind, wrapped |-> TRUE]

(***************************************************************************)
(* String helpers over token sequences.                                    *)
(***************************************************************************)
\* strings.IndexByte: first position of token t in s, 0 if absent
IndexByte(s, t) ==
    IF \E i \in 1..Len(s) : s[i] = t
    THEN CHOOSE i \in 1..Len(s) : s[i] = t /\ \A j \in 1..(i - 1) : s[j] # t
    ELSE 0

\* last position of token t in s, 0 if absent
LastIndex(s, t) ==
    IF \E i \in 1..Len(s) : s[i] = t
    THEN CHOOSE i \in 1..Len(s) : s[i] = t /\ \A j \in (i + 1)..Len(s) : s[j] # t
    ELSE 0

RECURSIVE TrimRight(_, _)
\* strings.TrimRight(s, t)
TrimRight(s, t) ==
    IF Len(s) > 0 /\ s[Len(s)] = t
    THEN TrimRight(SubSeq(s, 1, Len(s) - 1), t)
    ELSE s

RECURSIVE Split(_, _)
\* strings.Split(s, sep): the segments of s between occurrences of sep
Split(s, sep) ==
    LET i == IndexByte(s, sep)
    IN  IF i = 0
        THEN <<s>>
        ELSE <<SubSeq(s, 1, i - 1)>> \o Split(SubSeq(s, i + 1, Len(s)), sep)

RECURSIVE Join(_, _)
\* strings.Join(list, sep)
Join(list, sep) ==
    IF Len(list) = 0 THEN <<>>
    ELSE IF Len(list) = 1 THEN list[1]
    ELSE list[1] \o <<sep>> \o Join(Tail(list), sep)

(***************************************************************************)
(* ma.NewMultiaddr.                                                        *)
(***************************************************************************)
\* dotted-quad literals net.ParseIP(...).To4() accepts
IP4Literals == {"0.0.0.0", "127.0.0.1", "1.2.3.4"}

\* decimal strings in 0..65535
PortLiterals == {"4040", "4141", "9999"}

\* protocols of the multiaddr table with a value
ValueProtocols == {"ip4", "tcp", "udp"}

\* protocols of the multiaddr table without a value (Size == 0)
FlagProtocols == {"quic"}

\* the transcoder of protocol name accepts the string v
TranscoderOK(name, v) ==
    IF name = "ip4" THEN v \in IP4Literals ELSE v \in PortLiterals

\* the nil ma.Multiaddr
NilMaddr == <<>>

RECURSIVE ParseComponents(_)
\* the loop of multiaddr's stringToBytes over the "/"-separated segments sp
ParseComponents(sp) ==
    IF Len(sp) = 0 THEN [ok |-> TRUE, val |-> <<>>]
    ELSE IF Len(sp[1]) # 1 THEN [ok |-> FALSE, val |-> NilMaddr]
    ELSE LET name == sp[1][1]
         IN  IF name \in FlagProtocols
             THEN LET rest == ParseComponents(Tail(sp))
                  IN  IF rest.ok
                      THEN [ok |-> TRUE, val |-> <<<<name, "">>>> \o rest.val]
                      ELSE rest
             ELSE IF name \notin ValueProtocols \/ Len(sp) < 2
                  THEN [ok |-> FALSE, val |-> NilMaddr]
             ELSE IF Len(sp[2]) # 1 \/ ~TranscoderOK(name, sp[2][1])
                  THEN [ok |-> FALSE, val |-> NilMaddr]
             ELSE LET rest == ParseComponents(Tail(Tail(sp)))
                  IN  IF rest.ok
                      THEN [ok |-> TRUE, val |-> <<<<name, sp[2][1]>>>> \o rest.val]
                      ELSE rest

\* ma.NewMultiaddr(s): [ok, val]; val is NilMaddr when the parse fails
NewMultiaddr(s) ==
    LET t  == TrimRight(s, "/")
        sp == Split(t, "/")
    IN  IF Len(sp[1]) # 0 \/ Len(sp) < 2
        THEN [ok |-> FALSE, val |-> NilMaddr]
        ELSE ParseComponents(Tail(sp))

(***************************************************************************)
(* net.SplitHostPort (inputs without brackets).                            *)
(***************************************************************************)
SplitHostPort(hostport) ==
    LET i == LastIndex(hostport, ":")
    IN  IF i = 0
        THEN [ok |-> FALSE, host |-> <<>>, port |-> <<>>]
        ELSE IF IndexByte(SubSeq(hostport, 1, i - 1), ":") # 0
        THEN [ok |-> FALSE, host |-> <<>>, port |-> <<>>]
        ELSE [ok |-> TRUE,
              host |-> SubSeq(hostport, 1, i - 1),
              port |-> SubSeq(hostport, i + 1, Len(hostport))]

\* fmt.Sprintf("/ip4/%s/tcp/%s/", host, port)
SprintfIP4TCP(host, port) ==
    <<"/", "ip4", "/">> \o host \o <<"/", "tcp", "/">> \o port \o <<"/">>

\* the host the fallback uses: an empty host becomes 127.0.0.1
DefaultHost(host) == IF host = <<>> THEN <<"127.0.0.1">> ELSE host

(***************************************************************************)
(* parseAddrs.                                                             *)
(***************************************************************************)
\* the error of a failed ma.NewMultiaddr
MultiaddrError == Err("Multiaddr")

RECURSIVE ParseAddrsLoop(_, _, _, _)
\* the for loop of parseAddrs from index i on, with the named results so far
ParseAddrsLoop(addrs, i, maddrs, err) ==
    IF i > Len(addrs) THEN [maddrs |-> maddrs, err |-> err]
    ELSE LET r1 == NewMultiaddr(addrs[i])
         IN  IF r1.ok
             THEN ParseAddrsLoop(addrs, i + 1, [maddrs EXCEPT ![i] = r1.val], Nil)
             ELSE LET hp == SplitHostPort(addrs[i])
                  IN  IF ~hp.ok
                      THEN [maddrs |-> [maddrs EXCEPT ![i] = NilMaddr],
                            err |-> MultiaddrError]
                      ELSE LET r2 == NewMultiaddr(
                                        SprintfIP4TCP(DefaultHost(hp.host), hp.port))
                           IN  ParseAddrsLoop(addrs, i + 1,
                                   [maddrs EXCEPT ![i] = r2.val],
                                   IF r2.ok THEN Nil ELSE MultiaddrError)

\* the loop starts one element too late
parseAddrsSkipFirst(addrs) ==
    ParseAddrsLoop(addrs, 2, [j \in 1..Len(addrs) |-> NilMaddr], Nil)

\* parseAddrs(addrs...): [maddrs, err]
parseAddrs(addrs) ==
    ParseAddrsLoop(addrs, 1, [j \in 1..Len(addrs) |-> NilMaddr], Nil)

(***************************************************************************)
(* encoding/base64 StdEncoding.  A base64 string is a sequence of numbers: *)
(* 0..63 is the alphabet character with that value, 64 is the padding      *)
(* character '=', 65 is a character outside the alphabet.  Bytes are       *)
(* numbers in 0..255.                                                      *)
(***************************************************************************)
RECURSIVE EncodeToString(_)
\* base64.StdEncoding.EncodeToString(b)
EncodeToString(b) ==
    IF Len(b) = 0 THEN <<>>
    ELSE IF Len(b) = 1
    THEN <<b[1] \div 4, (b[1] % 4) * 16, 64, 64>>
    ELSE IF Len(b) = 2
    THEN <<b[1] \div 4, (b[1] % 4) * 16 + (b[2] \div 16), (b[2] % 16) * 4, 64>>
    ELSE <<b[1] \div 4, (b[1] % 4) * 16 + (b[2] \div 16),
           (b[2] % 16) * 4 + (b[3] \div 64), b[3] % 64>>
         \o EncodeToString(SubSeq(b, 4, Len(b)))

RECURSIVE DecodeString(_)
\* base64.StdEncoding.DecodeString(s): [ok, val]
DecodeString(s) ==
    IF Len(s) = 0 THEN [ok |-> TRUE, val |-> <<>>]
    ELSE IF Len(s) < 4 THEN [ok |-> FALSE, val |-> <<>>]
    ELSE IF \A i \in 1..4 : s[i] < 64
    THEN LET rest == DecodeString(SubSeq(s, 5, Len(s)))
         IN  IF rest.ok
             THEN [ok |-> TRUE,
                   val |-> <<s[1] * 4 + (s[2] \div 16),
                             (s[2] % 16) * 16 + (s[3] \div 4),
                             (s[3] % 4) * 64 + s[4]>> \o rest.val]
             ELSE rest
    ELSE IF Len(s) = 4 /\ s[1] < 64 /\ s[2] < 64 /\ s[3] = 64 /\ s[4] = 64
    THEN [ok |-> TRUE, val |-> <<s[1] * 4 + (s[2] \div 16)>>]
    ELSE IF Len(s) = 4 /\ s[1] < 64 /\ s[2] < 64 /\ s[3] < 64 /\ s[4] = 64
    THEN [ok |-> TRUE,
          val |-> <<s[1] * 4 + (s[2] \div 16), (s[2] % 16) * 16 + (s[3] \div 4)>>]
    ELSE [ok |-> FALSE, val |-> <<>>]

(***************************************************************************)
(* libp2p crypto.  A private key is a number in Keys; NilKey is the nil    *)
(* PrivKey.  The protobuf of a key is field 1 (tag byte 8) holding the key *)
(* type (RSA is 0) and field 2 (tag byte 18) holding the length-prefixed   *)
(* key data.                                                               *)
(***************************************************************************)
Keys == 1..NumKeys

NilKey == 0 - 1

\* the key material of key k as bytes (a DER SEQUENCE tag, then the key)
KeyData(k) == <<48, k>>

\* the protobuf without the length of the key data
MarshalPrivateKeyNoLen(k) == <<8, 0, 18>> \o KeyData(k)

\* libp2p_ci.MarshalPrivateKey(k)
MarshalPrivateKey(k) == <<8, 0, 18, Len(KeyData(k))>> \o KeyData(k)

\* libp2p_ci.UnmarshalPrivateKey(b): [ok, key]
UnmarshalPrivateKey(b) ==
    IF /\ Len(b) >= 4
       /\ b[1] = 8 /\ b[2] = 0 /\ b[3] = 18
       /\ b[4] = Len(b) - 4
       /\ \E k \in Keys : SubSeq(b, 5, Len(b)) = KeyData(k)
    THEN [ok |-> TRUE, key |-> CHOOSE k \in Keys : SubSeq(b, 5, Len(b)) = KeyData(k)]
    ELSE [ok |-> FALSE, key |-> NilKey]

(***************************************************************************)
(* Inputs: the command line and the values of the serve flags.             *)
(***************************************************************************)
\* the default of -l: "/ip4/0.0.0.0/tcp/4040,/ip4/0.0.0.0/udp/4141/quic"
DefaultListeners ==
    <<"/", "ip4", "/", "0.0.0.0", "/", "tcp", "/", "4040", ",",
      "/", "ip4", "/", "0.0.0.0", "/", "udp", "/", "4141", "/", "quic">>

\* the default of -pk
DefaultPK == <<>>

\* address strings an operator may list in -l
AddrInputs ==
    { <<"/", "ip4", "/", "0.0.0.0", "/", "tcp", "/", "4040">>,
      <<"1.2.3.4", ":", "9999">>,
      <<":", "9999">>,
      <<"localhost", ":", "9999">>,
      <<"1.2.3.4", ":", "99999">>,
      <<"garbage">> }

\* the lists of 1..MaxAddrs address strings
AddrLists == UNION { [1..n -> AddrInputs] : n \in 1..MaxAddrs }

\* values an operator may give to -pk: a printed key, a string with a
\* character outside the alphabet, a truncated string, the base64 of bytes
\* that are no key
PKInputs ==
    { EncodeToString(MarshalPrivateKey(k)) : k \in Keys }
    \cup { <<65>> \o Tail(EncodeToString(MarshalPrivateKey(1))),
           Tail(EncodeToString(MarshalPrivateKey(1))),
           EncodeToString(<<1, 2, 3>>) }

\* os.Args[1:], by what root.Run does with it
ArgsInputs == {"serve", "serve-badflag", "genkey", "none", "badflag"}

\* the values -l can take
ListenersValues == {Join(l, ",") : l \in AddrLists} \cup {DefaultListeners}

\* for every value f of -l, the result of parseAddrs(strings.Split(f, ",")...)
ListenersParsed == [f \in ListenersValues |-> parseAddrs(Split(f, ","))]

(***************************************************************************)
(* State.                                                                  *)
(***************************************************************************)
VARIABLES
    args,                 \* os.Args[1:]
    serveFlagsListeners,  \* *serveFlagsListeners
    serveFlagsPK,         \* *serveFlagsPK
    procState,            \* "running", or "exited" once the process has ended
    exitCode,             \* exit status of the ended process, -1 while running
    fatalLogged,          \* log.Fatal was called
    errors,               \* the group's errors channel: every value sent, in order
    received,             \* number of values Run has received from errors
    groupPc,              \* position of process.Run
    interruptIdx,         \* index of the next actor Run interrupts
    runErr,               \* the value process.Run returns
    interruptCount,       \* number of calls of each actor's interrupt
    sigPc,                \* position of the signal watcher's execute
    sigChan,              \* number of signals buffered in the watcher's channel
    signalsSent,          \* number of interrupts the operating system has sent
    sigScopeCancelled,    \* the cancel of the watcher's own scope was called
    rootCancelCalls,      \* number of calls of main's cancel
    rootPc,               \* position of the root command's execute
    servePc,              \* position of serve's Exec
    serveErr,             \* the value serve's Exec returns
    serveScope,           \* serve's scope: "none", "active", "cancelled" (own cancel)
    listeners,            \* result of parseAddrs in serve
    priv,                 \* the private key of serve
    identityPath,         \* "none", "load" or "generate"
    hostState,            \* "none", "open", "closed"
    hostPriv,             \* the identity given to libp2p.New
    dbState,              \* "none", "open", "closed"
    serviceStarted,       \* NewRendezvousService was called
    defers,               \* the deferred calls of serve's Exec, in registration order
    acquired,             \* resources serve acquired, in order
    released,             \* resources serve released, in order
    stdout                \* lines printed to standard output

vars == <<args, serveFlagsListeners, serveFlagsPK, procState, exitCode, fatalLogged,
          errors, received, groupPc, interruptIdx, runErr, interruptCount,
          sigPc, sigChan, signalsSent, sigScopeCancelled, rootCancelCalls,
          rootPc, servePc, serveErr, serveScope, listeners, priv, identityPath,
          hostState, hostPriv, dbState, serviceStarted, defers, acquired, released,
          stdout>>

procVars == <<procState, exitCode, fatalLogged>>
groupVars == <<errors, received, groupPc, interruptIdx, runErr, interruptCount>>
sigVars == <<sigPc, sigChan, signalsSent>>
ctxVars == <<sigScopeCancelled, rootCancelCalls>>
flagVars == <<args, serveFlagsListeners, serveFlagsPK>>
serveVars == <<servePc, serveErr, serveScope, listeners, priv, identityPath,
               hostState, hostPriv, dbState, serviceStarted, defers, acquired,
               released>>

\* the actors of the group, in the order of process.Add
Actors == <<"sig", "root">>

\* a second call of cancel re-arms the scope
rootCancelledToggle == rootCancelCalls = 1

\* the root scope of main is cancelled
rootCancelled == rootCancelCalls > 0

\* the signal itself cancels the scope the watcher waits on
sigCtxDoneOnSignal == sigScopeCancelled \/ rootCancelCalls > 0 \/ sigChan > 0

\* the scope of the signal watcher (a child of the root scope) is done
sigCtxDone == sigScopeCancelled \/ rootCancelled

\* the scope of serve derived from context.Background(), not from the root scope
serveCtxDoneOwn == serveScope = "cancelled"

\* the scope of serve (a child of the root scope) is done
serveCtxDone == serveScope = "cancelled" \/ (serveScope = "active" /\ rootCancelled)

\* ctx.Err() of a scope: context.Canceled once it is done, nil before
CtxErr(done) == IF done THEN Canceled ELSE Nil

Running == procState = "running"

\* a task's execute returns err: the goroutine of Run sends it on errors
Send(task, err) == errors' = Append(errors, [task |-> task, err |-> err])

(***************************************************************************)
(* Initial state: main has registered both actors and process.Run has      *)
(* started their execute functions.                                        *)
(***************************************************************************)
Init ==
    /\ args \in ArgsInputs
    /\ serveFlagsListeners = DefaultListeners
    /\ serveFlagsPK = DefaultPK
    /\ procState = "running"
    /\ exitCode = 0 - 1
    /\ fatalLogged = FALSE
    /\ errors = <<>>
    /\ received = 0
    /\ groupPc = "wait_first"
    /\ interruptIdx = 1
    /\ runErr = Nil
    /\ interruptCount = [a \in {"sig", "root"} |-> 0]
    /\ sigPc = "running"
    /\ sigChan = 0
    /\ signalsSent = 0
    /\ sigScopeCancelled = FALSE
    /\ rootCancelCalls = 0
    /\ rootPc = "start"
    /\ servePc = "none"
    /\ serveErr = Nil
    /\ serveScope = "none"
    /\ listeners = <<>>
    /\ priv = NilKey
    /\ identityPath = "none"
    /\ hostState = "none"
    /\ hostPriv = NilKey
    /\ dbState = "none"
    /\ serviceStarted = FALSE
    /\ defers = <<>>
    /\ acquired = <<>>
    /\ released = <<>>
    /\ stdout = <<>>

(***************************************************************************)
(* The operating system and the signal watcher (run.SignalHandler).        *)
(***************************************************************************)
\* the operating system delivers os.Interrupt; the channel buffers one signal
OSInterrupt ==
    /\ Running
    /\ signalsSent < MaxSignals
    /\ signalsSent' = signalsSent + 1
    /\ sigChan' = IF sigChan = 0 THEN 1 ELSE sigChan
    /\ UNCHANGED <<sigPc, rootPc, stdout>>
    /\ UNCHANGED <<procVars, groupVars, ctxVars, flagVars, serveVars>>

\* the watcher's select takes the signal: execute returns SignalError
SigRecv ==
    /\ Running
    /\ sigPc = "running"
    /\ sigChan > 0
    /\ sigChan' = sigChan - 1
    /\ sigPc' = "returned"
    /\ Send("sig", SignalError)
    /\ UNCHANGED <<received, groupPc, interruptIdx, runErr, interruptCount>>
    /\ UNCHANGED <<signalsSent, rootPc, stdout>>
    /\ UNCHANGED <<procVars, ctxVars, flagVars, serveVars>>

\* the watcher's select takes ctx.Done(): execute returns ctx.Err()
SigCtxDone ==
    /\ Running
    /\ sigPc = "running"
    /\ sigCtxDone
    /\ sigPc' = "returned"
    /\ Send("sig", CtxErr(sigCtxDone))
    /\ UNCHANGED <<received, groupPc, interruptIdx, runErr, interruptCount>>
    /\ UNCHANGED <<sigChan, signalsSent, rootPc, stdout>>
    /\ UNCHANGED <<procVars, ctxVars, flagVars, serveVars>>

(***************************************************************************)
(* The root command: root.Run(os.Args[1:]).                                *)
(***************************************************************************)
\* a flag set built with flag.ExitOnError fails to parse: os.Exit(2)
FlagParseExit ==
    /\ Running
    /\ rootPc = "start"
    /\ args \in {"badflag", "serve-badflag"}
    /\ procState' = "exited"
    /\ exitCode' = 2
    /\ UNCHANGED <<fatalLogged, rootPc, stdout>>
    /\ UNCHANGED <<groupVars, sigVars, ctxVars, flagVars, serveVars>>

\* no subcommand: the root Exec prints the usage and returns flag.ErrHelp
RootExec ==
    /\ Running
    /\ rootPc = "start"
    /\ args = "none"
    /\ rootPc' = "returned"
    /\ Send("root", ErrHelp)
    /\ UNCHANGED <<received, groupPc, interruptIdx, runErr, interruptCount>>
    /\ UNCHANGED <<stdout>>
    /\ UNCHANGED <<procVars, sigVars, ctxVars, flagVars, serveVars>>

\* genkey: generate, marshal, print the base64 of the key, return nil
GenKey ==
    /\ Running
    /\ rootPc = "start"
    /\ args = "genkey"
    /\ rootPc' = "returned"
    /\ \E k \in Keys :
          stdout' = Append(stdout, EncodeToString(MarshalPrivateKey(k)))
    /\ Send("root", Nil)
    /\ UNCHANGED <<received, groupPc, interruptIdx, runErr, interruptCount>>
    /\ UNCHANGED <<procVars, sigVars, ctxVars, flagVars, serveVars>>

\* genkey: key generation fails
GenKeyFail ==
    /\ Running
    /\ rootPc = "start"
    /\ args = "genkey"
    /\ rootPc' = "returned"
    /\ Send("root", Wrap(Err("KeyGen")))
    /\ UNCHANGED <<received, groupPc, interruptIdx, runErr, interruptCount>>
    /\ UNCHANGED <<stdout>>
    /\ UNCHANGED <<procVars, sigVars, ctxVars, flagVars, serveVars>>

\* serve: the serve flag set is parsed, then Exec is entered
ServeParseFlags ==
    /\ Running
    /\ rootPc = "start"
    /\ args = "serve"
    /\ rootPc' = "serve"
    /\ servePc' = "preRun"
    /\ \E f \in ListenersValues : serveFlagsListeners' = f
    /\ \E pk \in PKInputs \cup {DefaultPK} : serveFlagsPK' = pk
    /\ UNCHANGED <<args, stdout>>
    /\ UNCHANGED <<serveErr, serveScope, listeners, priv, identityPath, hostState,
                   hostPriv, dbState, serviceStarted, defers, acquired, released>>
    /\ UNCHANGED <<procVars, groupVars, sigVars, ctxVars>>

(***************************************************************************)
(* serve: the Exec of the serve command, statement by statement.           *)
(***************************************************************************)
\* a defer statement forgotten: the call is never registered
RegisterDeferDropped(d, call) == d

\* defer call(): the call is pushed on the deferred calls of Exec
RegisterDefer(d, call) == Append(d, call)

\* globalPreRun, then the command scope and its deferred cancel
ServePreRun ==
    /\ Running
    /\ servePc = "preRun"
    /\ \E ok \in BOOLEAN :
          IF ok
          THEN /\ serveScope' = "active"
               /\ defers' = RegisterDefer(defers, "cancel")
               /\ acquired' = Append(acquired, "scope")
               /\ servePc' = "parseAddrs"
               /\ UNCHANGED serveErr
          ELSE /\ serveErr' = Wrap(Err("Logger"))
               /\ servePc' = "unwind"
               /\ UNCHANGED <<serveScope, defers, acquired>>
    /\ UNCHANGED <<listeners, priv, identityPath, hostState, hostPriv, dbState,
                   serviceStarted, released>>
    /\ UNCHANGED <<rootPc, stdout>>
    /\ UNCHANGED <<procVars, groupVars, sigVars, ctxVars, flagVars>>

\* laddrs := strings.Split(*serveFlagsListeners, ","); parseAddrs(laddrs...)
ServeParseAddrs ==
    /\ Running
    /\ servePc = "parseAddrs"
    /\ LET r == ListenersParsed[serveFlagsListeners]
       IN  /\ listeners' = r.maddrs
           /\ IF r.err # Nil
              THEN serveErr' = Wrap(r.err) /\ servePc' = "unwind"
              ELSE servePc' = "identity" /\ UNCHANGED serveErr
    /\ UNCHANGED <<serveScope, priv, identityPath, hostState, hostPriv, dbState,
                   serviceStarted, defers, acquired, released>>
    /\ UNCHANGED <<rootPc, stdout>>
    /\ UNCHANGED <<procVars, groupVars, sigVars, ctxVars, flagVars>>

\* a failed load falls back to a generated key
LoadIdentityFallback ==
    LET d == DecodeString(serveFlagsPK)
        u == UnmarshalPrivateKey(d.val)
    IN  /\ identityPath' = "load"
        /\ servePc' = "openHost"
        /\ UNCHANGED serveErr
        /\ IF d.ok /\ u.ok
           THEN priv' = u.key
           ELSE \E k \in Keys : priv' = k

\* the identity is loaded from -pk
LoadIdentity ==
    LET d == DecodeString(serveFlagsPK)
        u == UnmarshalPrivateKey(d.val)
    IN  /\ identityPath' = "load"
        /\ IF ~d.ok
           THEN serveErr' = Wrap(Err("Base64")) /\ servePc' = "unwind" /\ UNCHANGED priv
           ELSE IF ~u.ok
           THEN serveErr' = Wrap(Err("KeyFormat")) /\ servePc' = "unwind"
                /\ UNCHANGED priv
           ELSE priv' = u.key /\ servePc' = "openHost" /\ UNCHANGED serveErr

\* the identity is generated
GenerateIdentity ==
    /\ identityPath' = "generate"
    /\ \/ \E k \in Keys :
             priv' = k /\ servePc' = "openHost" /\ UNCHANGED serveErr
       \/ serveErr' = Wrap(Err("KeyGen")) /\ servePc' = "unwind" /\ UNCHANGED priv

\* load existing or generate new identity
ServeIdentity ==
    /\ Running
    /\ servePc = "identity"
    /\ IF serveFlagsPK # DefaultPK THEN LoadIdentity ELSE GenerateIdentity
    /\ UNCHANGED <<serveScope, listeners, hostState, hostPriv, dbState,
                   serviceStarted, defers, acquired, released>>
    /\ UNCHANGED <<rootPc, stdout>>
    /\ UNCHANGED <<procVars, groupVars, sigVars, ctxVars, flagVars>>

\* some listener given to libp2p.ListenAddrs is the nil multiaddr
HasNilListener == \E i \in 1..Len(listeners) : listeners[i] = NilMaddr

\* libp2p.New succeeds (the host and its deferred Close) or returns an error
ServeOpenHost ==
    /\ Running
    /\ servePc = "openHost"
    /\ \E ok \in BOOLEAN :
          IF ok
          THEN /\ hostState' = "open"
               /\ hostPriv' = priv
               /\ defers' = RegisterDefer(defers, "host.Close")
               /\ acquired' = Append(acquired, "host")
               /\ servePc' = "openDB"
               /\ UNCHANGED serveErr
          ELSE /\ serveErr' = Wrap(Err("Host"))
               /\ servePc' = "unwind"
               /\ UNCHANGED <<hostState, hostPriv, defers, acquired>>
    /\ UNCHANGED <<serveScope, listeners, priv, identityPath, dbState,
                   serviceStarted, released>>
    /\ UNCHANGED <<rootPc, stdout>>
    /\ UNCHANGED <<procVars, groupVars, sigVars, ctxVars, flagVars>>

\* libp2p.New dereferences a nil listener: the panic runs the deferred cancel
\* of Exec and ends the process with status 2
ServeOpenHostPanic ==
    /\ Running
    /\ servePc = "openHost"
    /\ HasNilListener
    /\ serveScope' = "cancelled"
    /\ defers' = <<>>
    /\ released' = Append(released, "scope")
    /\ servePc' = "panicked"
    /\ procState' = "exited"
    /\ exitCode' = 2
    /\ UNCHANGED <<serveErr, listeners, priv, identityPath, hostState, hostPriv,
                   dbState, serviceStarted, acquired>>
    /\ UNCHANGED <<fatalLogged, rootPc, stdout>>
    /\ UNCHANGED <<groupVars, sigVars, ctxVars, flagVars>>

\* libp2p_rpdb.OpenDB succeeds (the handle and its deferred Close) or fails
ServeOpenDB ==
    /\ Running
    /\ servePc = "openDB"
    /\ \E ok \in BOOLEAN :
          IF ok
          THEN /\ dbState' = "open"
               /\ defers' = RegisterDefer(defers, "db.Close")
               /\ acquired' = Append(acquired, "db")
               /\ servePc' = "startService"
               /\ UNCHANGED serveErr
          ELSE /\ serveErr' = Wrap(Err("DB"))
               /\ servePc' = "unwind"
               /\ UNCHANGED <<dbState, defers, acquired>>
    /\ UNCHANGED <<serveScope, listeners, priv, identityPath, hostState, hostPriv,
                   serviceStarted, released>>
    /\ UNCHANGED <<rootPc, stdout>>
    /\ UNCHANGED <<procVars, groupVars, sigVars, ctxVars, flagVars>>

\* libp2p_rp.NewRendezvousService(host, db)
ServeStartService ==
    /\ Running
    /\ servePc = "startService"
    /\ serviceStarted' = TRUE
    /\ servePc' = "wait"
    /\ UNCHANGED <<serveErr, serveScope, listeners, priv, identityPath, hostState,
                   hostPriv, dbState, defers, acquired, released>>
    /\ UNCHANGED <<rootPc, stdout>>
    /\ UNCHANGED <<procVars, groupVars, sigVars, ctxVars, flagVars>>

\* ctx.Err() returned as it is, without errcode.TODO.Wrap
WaitResultBare(err) == err

\* the value serve returns after <-ctx.Done(), given err = ctx.Err()
WaitResult(err) == IF err # Nil THEN Wrap(err) ELSE Nil

\* <-ctx.Done(), then the return of the wrapped ctx.Err()
ServeWait ==
    /\ Running
    /\ servePc = "wait"
    /\ serveCtxDone
    /\ serveErr' = WaitResult(CtxErr(serveCtxDone))
    /\ servePc' = "unwind"
    /\ UNCHANGED <<serveScope, listeners, priv, identityPath, hostState, hostPriv,
                   dbState, serviceStarted, defers, acquired, released>>
    /\ UNCHANGED <<rootPc, stdout>>
    /\ UNCHANGED <<procVars, groupVars, sigVars, ctxVars, flagVars>>

\* deferred calls run in the order of registration
NextDeferFirst(d) == 1

\* the deferred call that runs next: the last one registered
NextDefer(d) == Len(d)

\* d without its i-th element
Without(d, i) == SubSeq(d, 1, i - 1) \o SubSeq(d, i + 1, Len(d))

\* Exec is returning: one deferred call runs
ServeDefer ==
    /\ Running
    /\ servePc = "unwind"
    /\ defers # <<>>
    /\ LET i == NextDefer(defers)
           d == defers[i]
       IN  /\ defers' = Without(defers, i)
           /\ IF d = "db.Close"
              THEN /\ dbState' = "closed"
                   /\ released' = Append(released, "db")
                   /\ UNCHANGED <<hostState, serveScope>>
              ELSE IF d = "host.Close"
              THEN /\ hostState' = "closed"
                   /\ released' = Append(released, "host")
                   /\ UNCHANGED <<dbState, serveScope>>
              ELSE /\ serveScope' = "cancelled"
                   /\ released' = Append(released, "scope")
                   /\ UNCHANGED <<dbState, hostState>>
    /\ UNCHANGED <<servePc, serveErr, listeners, priv, identityPath, hostPriv,
                   serviceStarted, acquired>>
    /\ UNCHANGED <<rootPc, stdout>>
    /\ UNCHANGED <<procVars, groupVars, sigVars, ctxVars, flagVars>>

\* Exec has returned: root.Run returns its value and the task ends
ServeReturn ==
    /\ Running
    /\ servePc = "unwind"
    /\ defers = <<>>
    /\ servePc' = "returned"
    /\ rootPc' = "returned"
    /\ Send("root", serveErr)
    /\ UNCHANGED <<received, groupPc, interruptIdx, runErr, interruptCount>>
    /\ UNCHANGED <<serveErr, serveScope, listeners, priv, identityPath, hostState,
                   hostPriv, dbState, serviceStarted, defers, acquired, released>>
    /\ UNCHANGED <<stdout>>
    /\ UNCHANGED <<procVars, sigVars, ctxVars, flagVars>>

(***************************************************************************)
(* process.Run (oklog/run Group.Run) and the end of main.                  *)
(***************************************************************************)
\* Run waits for one actor too few
WaitCountFirst == Len(Actors) - 1

\* the number of values Run receives from errors before it returns
WaitCount == Len(Actors)

\* the interrupt loop stops one actor too early
NumInterruptedFirst == Len(Actors) - 1

\* the number of actors Run interrupts: all of them
NumInterrupted == Len(Actors)

\* the value of the last actor that has returned so far
LastValue(errs) == errs[Len(errs)].err

\* the first non-nil value among the actors that have returned so far
FirstNonNilValue(errs) ==
    IF \E i \in 1..Len(errs) : errs[i].err # Nil
    THEN errs[CHOOSE i \in 1..Len(errs) :
                 errs[i].err # Nil /\ \A j \in 1..(i - 1) : errs[j].err = Nil].err
    ELSE Nil

\* the value Run keeps: that of the first actor to return
FirstValue(errs) == errs[1].err

\* err := <-errors: the value of the first actor to return
RunRecvFirst ==
    /\ Running
    /\ groupPc = "wait_first"
    /\ Len(errors) > 0
    /\ runErr' = FirstValue(errors)
    /\ received' = 1
    /\ groupPc' = "interrupt"
    /\ UNCHANGED <<errors, interruptIdx, interruptCount>>
    /\ UNCHANGED <<rootPc, stdout>>
    /\ UNCHANGED <<procVars, sigVars, ctxVars, flagVars, serveVars>>

\* a.interrupt(err) for the next actor, in the order of registration
RunInterrupt ==
    /\ Running
    /\ groupPc = "interrupt"
    /\ LET a == Actors[interruptIdx]
       IN  /\ interruptCount' = [interruptCount EXCEPT ![a] = @ + 1]
           /\ IF a = "sig"
              THEN sigScopeCancelled' = TRUE /\ UNCHANGED rootCancelCalls
              ELSE rootCancelCalls' = rootCancelCalls + 1
                   /\ UNCHANGED sigScopeCancelled
    /\ interruptIdx' = interruptIdx + 1
    /\ groupPc' = IF interruptIdx >= NumInterrupted THEN "wait_rest" ELSE "interrupt"
    /\ UNCHANGED <<errors, received, runErr>>
    /\ UNCHANGED <<rootPc, stdout>>
    /\ UNCHANGED <<procVars, sigVars, flagVars, serveVars>>

\* <-errors for one more actor
RunRecvRest ==
    /\ Running
    /\ groupPc = "wait_rest"
    /\ received < WaitCount
    /\ Len(errors) > received
    /\ received' = received + 1
    /\ UNCHANGED <<errors, groupPc, interruptIdx, runErr, interruptCount>>
    /\ UNCHANGED <<rootPc, stdout>>
    /\ UNCHANGED <<procVars, sigVars, ctxVars, flagVars, serveVars>>

\* return err
RunReturn ==
    /\ Running
    /\ groupPc = "wait_rest"
    /\ received >= WaitCount
    /\ groupPc' = "returned"
    /\ UNCHANGED <<errors, received, interruptIdx, runErr, interruptCount>>
    /\ UNCHANGED <<rootPc, stdout>>
    /\ UNCHANGED <<procVars, sigVars, ctxVars, flagVars, serveVars>>

\* the test without its nil check
IsFatalNoNilCheck(err) == err # Canceled

\* the test of main on the value of process.Run
IsFatal(err) == err # Nil /\ err # Canceled

\* log.Fatal(err): the process exits with status 1, deferred calls do not run
MainFatal ==
    /\ Running
    /\ groupPc = "returned"
    /\ IsFatal(runErr)
    /\ fatalLogged' = TRUE
    /\ procState' = "exited"
    /\ exitCode' = 1
    /\ UNCHANGED <<rootPc, stdout>>
    /\ UNCHANGED <<groupVars, sigVars, ctxVars, flagVars, serveVars>>

\* main returns: its deferred cancel runs and the process exits with status 0
MainReturn ==
    /\ Running
    /\ groupPc = "returned"
    /\ ~IsFatal(runErr)
    /\ rootCancelCalls' = rootCancelCalls + 1
    /\ procState' = "exited"
    /\ exitCode' = 0
    /\ UNCHANGED <<fatalLogged, sigScopeCancelled, rootPc, stdout>>
    /\ UNCHANGED <<groupVars, sigVars, flagVars, serveVars>>

Next ==
    \/ OSInterrupt
    \/ SigRecv
    \/ SigCtxDone
    \/ FlagParseExit
    \/ RootExec
    \/ GenKey
    \/ GenKeyFail
    \/ ServeParseFlags
    \/ ServePreRun
    \/ ServeParseAddrs
    \/ ServeIdentity
    \/ ServeOpenHost
    \/ ServeOpenHostPanic
    \/ ServeOpenDB
    \/ ServeStartService
    \/ ServeWait
    \/ ServeDefer
    \/ ServeReturn
    \/ RunRecvFirst
    \/ RunInterrupt
    \/ RunRecvRest
    \/ RunReturn
    \/ MainFatal
    \/ MainReturn

Spec == Init /\ [][Next]_vars

\* the steps of the goroutine of the signal watcher
SigActions == SigRecv \/ SigCtxDone

\* the steps of the goroutine of the root command
RootActions ==
    \/ FlagParseExit \/ RootExec \/ GenKey \/ GenKeyFail \/ ServeParseFlags
    \/ ServePreRun \/ ServeParseAddrs \/ ServeIdentity \/ ServeOpenHost
    \/ ServeOpenHostPanic \/ ServeOpenDB \/ ServeStartService \/ ServeWait
    \/ ServeDefer \/ ServeReturn

\* the steps of the main goroutine
MainActions ==
    \/ RunRecvFirst \/ RunInterrupt \/ RunRecvRest \/ RunReturn
    \/ MainFatal \/ MainReturn

\* every goroutine that can take a step eventually takes one; the operating
\* system need not send a signal
FairSpec ==
    /\ Spec
    /\ WF_vars(SigActions)
    /\ WF_vars(RootActions)
    /\ WF_vars(MainActions)

(***************************************************************************)
(* Definitions used by the properties.                                     *)
(***************************************************************************)
RECURSIVE Reverse(_)
Reverse(q) == IF Len(q) = 0 THEN <<>> ELSE Reverse(Tail(q)) \o <<Head(q)>>

IsPrefix(p, q) == Len(p) <= Len(q) /\ SubSeq(q, 1, Len(p)) = p

\* some actor has returned
SomeReturned == Len(errors) > 0

\* the actor that returned first
FirstTask == errors[1].task

\* the value the first actor returned
FirstErr == errors[1].err

\* Exec of serve has passed its call of parseAddrs
ParseAddrsDone == serveScope # "none" /\ servePc # "parseAddrs"

\* the address strings serve hands to parseAddrs
Laddrs == Split(serveFlagsListeners, ",")

\* the structured parse of a fails and so does the host:port fallback
Malformed(a) ==
    /\ ~NewMultiaddr(a).ok
    /\ \/ ~SplitHostPort(a).ok
       \/ ~NewMultiaddr(SprintfIP4TCP(DefaultHost(SplitHostPort(a).host),
                                      SplitHostPort(a).port)).ok

HasMalformed == \E i \in 1..Len(Laddrs) : Malformed(Laddrs[i])

\* process.Run has returned
RunReturned == groupPc = "returned"

Exited == procState = "exited"

(***************************************************************************)
(* C1.  When the interrupt signal is the first cause of termination while  *)
(* serve is running (the signal watcher returns first, serve is fully      *)
(* started), the result of process.Run is not fatal: log.Fatal is not      *)
(* reached and the process that ends after Run does not exit non-zero.     *)
(***************************************************************************)
C1_InterruptIsClean ==
    (args = "serve" /\ serviceStarted /\ SomeReturned
        /\ FirstTask = "sig" /\ FirstErr = SignalError)
    => /\ ~fatalLogged
       /\ (RunReturned => ~IsFatal(runErr))
       /\ (RunReturned /\ Exited => exitCode = 0)

(***************************************************************************)
(* C2.  Once a task has returned, the interrupt of every task is invoked   *)
(* exactly once and before process.Run returns: no interrupt is invoked    *)
(* before a task has returned, none is invoked twice, and when Run has     *)
(* returned each has been invoked once.                                    *)
(***************************************************************************)
C2_InterruptExactlyOnce ==
    /\ \A a \in {"sig", "root"} : interruptCount[a] <= 1
    /\ (\E a \in {"sig", "root"} : interruptCount[a] > 0) => SomeReturned
    /\ RunReturned => \A a \in {"sig", "root"} : interruptCount[a] = 1

C2_Witness ==
    /\ RunReturned
    /\ FirstTask = "root"
    /\ interruptCount["sig"] = 1
    /\ interruptCount["root"] = 1

(***************************************************************************)
(* C3.  If the first task to return returns a non-nil error, process.Run   *)
(* returns exactly that error whatever the other tasks return afterwards,  *)
(* and unless it is context.Canceled the process ends with a non-zero      *)
(* status: through log.Fatal (status 1) when it ends after Run.            *)
(***************************************************************************)
C3_FirstErrorReturned ==
    (SomeReturned /\ FirstErr # Nil)
    => /\ (RunReturned => runErr = FirstErr)
       /\ (FirstErr # Canceled /\ Exited => exitCode # 0)
       /\ (FirstErr # Canceled /\ Exited /\ RunReturned
              => fatalLogged /\ exitCode = 1)

C3_Witness ==
    /\ Exited
    /\ fatalLogged
    /\ Len(errors) = 2
    /\ FirstTask = "root"
    /\ FirstErr = Wrap(Err("Host"))
    /\ errors[2].err = Canceled
    /\ runErr = Wrap(Err("Host"))

(***************************************************************************)
(* C4.  process.Run never returns while a task's execute is running: when  *)
(* Run has returned, the signal watcher and the root command have          *)
(* returned, and so has serve, with all its deferred calls run.            *)
(***************************************************************************)
C4_NoTaskOutlivesRun ==
    RunReturned
    => /\ sigPc = "returned"
       /\ rootPc = "returned"
       /\ servePc \in {"none", "returned"}
       /\ defers = <<>>

C4_Witness ==
    /\ RunReturned
    /\ servePc = "returned"
    /\ serviceStarted
    /\ released = <<"db", "host", "scope">>

(***************************************************************************)
(* C5 as stated.  The value process.Run returns is the first non-nil error *)
(* among all task terminations, and nil only if every task returned nil.   *)
(***************************************************************************)
C5_FirstNonNilReturned ==
    RunReturned
    => /\ runErr = FirstNonNilValue(errors)
       /\ (runErr = Nil => \A i \in 1..Len(errors) : errors[i].err = Nil)

(***************************************************************************)
(* C5 amended.  The value process.Run returns is the value returned by     *)
(* the first task to return, nil included: it is nil when the first task   *)
(* returned nil, although a task interrupted afterwards returned an error. *)
(***************************************************************************)
C5_FirstValueReturned ==
    RunReturned
    => /\ Len(errors) = Len(Actors)
       /\ runErr = errors[1].err
       /\ (runErr = Nil <=> errors[1].err = Nil)

C5_Witness ==
    /\ RunReturned
    /\ args = "genkey"
    /\ FirstTask = "root"
    /\ FirstErr = Nil
    /\ errors[2].err = Canceled
    /\ runErr = Nil

(***************************************************************************)
(* C6.  parseAddrs is all-or-nothing: when the list holds a malformed      *)
(* element, at any position, the call returns a non-nil error (serve       *)
(* returns it wrapped) and no list with nil entries is used.               *)
(***************************************************************************)
C6_AllOrNothing ==
    (ParseAddrsDone /\ HasMalformed)
    => /\ serveErr = Wrap(MultiaddrError)
       /\ servePc \in {"unwind", "returned"}

(***************************************************************************)
(* C7.  Every resource serve acquired is released on every exit path of    *)
(* the command in reverse order of acquisition (storage, host, scope),     *)
(* also when a later acquisition fails; nothing never acquired is closed.  *)
(***************************************************************************)
C7_ReleaseInReverse ==
    /\ IsPrefix(released, Reverse(acquired))
    /\ servePc = "returned" => released = Reverse(acquired)
    /\ servePc = "returned" =>
          /\ hostState # "open"
          /\ dbState # "open"
          /\ serveScope # "active"
    /\ hostState = "closed" => \E i \in 1..Len(acquired) : acquired[i] = "host"
    /\ dbState = "closed" => \E i \in 1..Len(acquired) : acquired[i] = "db"

C7_Witness ==
    /\ servePc = "returned"
    /\ serveErr = Wrap(Err("DB"))
    /\ acquired = <<"scope", "host">>
    /\ released = <<"host", "scope">>
    /\ hostState = "closed"
    /\ dbState = "none"

(***************************************************************************)
(* C8.  In every terminal state of the process, log.Fatal included, every  *)
(* host and storage handle that was opened has been closed.                *)
(***************************************************************************)
C8_NothingOpenAtExit ==
    Exited => hostState # "open" /\ dbState # "open"

C8_Witness ==
    /\ Exited
    /\ fatalLogged
    /\ hostState = "closed"
    /\ dbState = "closed"

(***************************************************************************)
(* C9.  serve acquires in the fixed order addresses, identity, host,       *)
(* storage, service, and a failing step is followed by no later step: if   *)
(* a listen address fails to resolve, or -pk fails to decode or to         *)
(* deserialize, the command fails before host or storage is opened.        *)
(***************************************************************************)
C9_FailFastInOrder ==
    /\ identityPath # "none" => ParseAddrsDone
    /\ hostState # "none" => priv # NilKey
    /\ dbState # "none" => hostState # "none"
    /\ serviceStarted => dbState # "none"
    /\ (ParseAddrsDone /\ HasMalformed)
          => /\ identityPath = "none"
             /\ servePc \notin {"openHost", "openDB", "startService", "wait"}
             /\ hostState = "none"
             /\ dbState = "none"
    /\ (identityPath = "load"
           /\ ~UnmarshalPrivateKey(DecodeString(serveFlagsPK).val).ok)
          => hostState = "none" /\ dbState = "none"

(***************************************************************************)
(* C10 as stated.  A fully started serve blocks until its scope is         *)
(* cancelled, then returns the scope's cause, which is nil after a clean   *)
(* interrupt (the signal watcher returned the signal first).               *)
(***************************************************************************)
C10_NilAfterCleanInterrupt ==
    /\ (serviceStarted /\ servePc \in {"unwind", "returned"}) => serveCtxDone
    /\ (serviceStarted /\ servePc \in {"unwind", "returned"}
           /\ FirstTask = "sig" /\ FirstErr = SignalError)
          => serveErr = Nil

(***************************************************************************)
(* C10 amended.  A fully started serve blocks until its scope is           *)
(* cancelled, then returns the scope's cause wrapped by errcode.TODO: a    *)
(* non-nil error wrapping context.Canceled, after a clean interrupt too.   *)
(***************************************************************************)
C10_WrappedCanceledAfterWait ==
    (serviceStarted /\ servePc \in {"unwind", "returned"})
    => /\ rootCancelled
       /\ SomeReturned
       /\ serveErr = Wrap(Canceled)

C10_Witness ==
    /\ serviceStarted
    /\ servePc = "returned"
    /\ FirstTask = "sig"
    /\ FirstErr = SignalError
    /\ serveErr = Wrap(Canceled)

\* Well-formed inputs of parseAddrs and what they stand for.
\* a is host:port with an empty or IPv4 host and a decimal port
WellFormedHostPort(a) ==
    \/ Len(a) = 2 /\ a[1] = ":" /\ a[2] \in PortLiterals
    \/ Len(a) = 3 /\ a[1] \in IP4Literals /\ a[2] = ":" /\ a[3] \in PortLiterals

WellFormed(a) == NewMultiaddr(a).ok \/ WellFormedHostPort(a)

\* the structured address a well-formed input stands for
Resolution(a) ==
    IF NewMultiaddr(a).ok THEN NewMultiaddr(a).val
    ELSE IF Len(a) = 2
    THEN <<<<"ip4", "127.0.0.1">>, <<"tcp", a[2]>>>>
    ELSE <<<<"ip4", a[1]>>, <<"tcp", a[3]>>>>

AllWellFormed == \A i \in 1..Len(Laddrs) : WellFormed(Laddrs[i])

(***************************************************************************)
(* C11.  When every element of the list is a well-formed multiaddress or   *)
(* a well-formed host:port pair (host empty or an IPv4 literal),           *)
(* parseAddrs returns a nil error and a list of the same length whose      *)
(* i-th entry is the resolution of the i-th input, none of them nil.       *)
(***************************************************************************)
C11_WellFormedResolved ==
    (ParseAddrsDone /\ AllWellFormed)
    => /\ serveErr # Wrap(MultiaddrError)
       /\ Len(listeners) = Len(Laddrs)
       /\ \A i \in 1..Len(Laddrs) :
             listeners[i] = Resolution(Laddrs[i]) /\ listeners[i] # NilMaddr

C11_Witness ==
    /\ ParseAddrsDone
    /\ servePc = "identity"
    /\ Laddrs = << <<":", "9999">>,
                   <<"/", "ip4", "/", "0.0.0.0", "/", "tcp", "/", "4040">> >>
    /\ listeners = << <<<<"ip4", "127.0.0.1">>, <<"tcp", "9999">>>>,
                      <<<<"ip4", "0.0.0.0">>, <<"tcp", "4040">>>> >>

\* The identity step of serve, as state and as step.
\* the value of -pk decodes and deserializes
PKLoads ==
    /\ DecodeString(serveFlagsPK).ok
    /\ UnmarshalPrivateKey(DecodeString(serveFlagsPK).val).ok

C12_IdentityPaths ==
    /\ identityPath = "none" => priv = NilKey
    /\ identityPath # "none" => (identityPath = "load" <=> serveFlagsPK # DefaultPK)
    /\ (identityPath = "load" /\ ~PKLoads)
          => /\ priv = NilKey
             /\ hostState = "none"
             /\ servePc \in {"unwind", "returned"}
             /\ serveErr = IF DecodeString(serveFlagsPK).ok
                           THEN Wrap(Err("KeyFormat"))
                           ELSE Wrap(Err("Base64"))
    /\ (identityPath = "load" /\ PKLoads)
          => priv = UnmarshalPrivateKey(DecodeString(serveFlagsPK).val).key
    /\ (identityPath = "generate" /\ priv = NilKey) => serveErr = Wrap(Err("KeyGen"))
    /\ hostState # "none" => hostPriv = priv /\ priv \in Keys

\* the path taken is never left for the other one
C12_OnePath == identityPath # "none" => identityPath' = identityPath

(***************************************************************************)
(* C12.  serve takes exactly one identity path per invocation: the load    *)
(* path (base64 decode, then key deserialization) if and only if -pk is    *)
(* not empty, the generate path otherwise; a failed load never falls back  *)
(* to generation; the one key obtained is the identity given to the host.  *)
(***************************************************************************)
C12_ExactlyOnePath == [][C12_OnePath /\ C12_IdentityPaths']_vars

C12_Witness ==
    /\ identityPath = "load"
    /\ serveFlagsPK = EncodeToString(MarshalPrivateKey(2))
    /\ hostState = "open"
    /\ hostPriv = 2

(***************************************************************************)
(* C13.  A successful genkey (the root command returns nil first) ends     *)
(* the process cleanly: the encoded key is printed, the signal watcher is  *)
(* interrupted, process.Run returns nil, log.Fatal is not reached and the  *)
(* exit status is 0, although the interrupted watcher returns an error.    *)
(***************************************************************************)
C13_GenkeyExitsZero ==
    (args = "genkey" /\ SomeReturned /\ FirstTask = "root" /\ FirstErr = Nil)
    => /\ \E k \in Keys : stdout = <<EncodeToString(MarshalPrivateKey(k))>>
       /\ ~fatalLogged
       /\ (groupPc # "wait_first" => runErr = Nil)
       /\ (RunReturned => interruptCount["sig"] = 1 /\ sigPc = "returned"
                          /\ errors[2].err # Nil)
       /\ (Exited => exitCode = 0)

C13_Witness ==
    /\ args = "genkey"
    /\ Exited
    /\ exitCode = 0
    /\ FirstTask = "root"
    /\ errors[2] = [task |-> "sig", err |-> Canceled]
    /\ Len(stdout) = 1

(***************************************************************************)
(* C14.  Key round trip: the string genkey prints for a key k (the base64  *)
(* of the marshalled key) is accepted by the load path of serve --pk, with *)
(* no decode and no key-format error, and yields k: the identity of the    *)
(* host is k.                                                              *)
(***************************************************************************)
C14_KeyRoundTrip ==
    /\ (args = "genkey" /\ stdout # <<>>)
          => /\ stdout[1] \in PKInputs
             /\ \E k \in Keys :
                   /\ stdout[1] = EncodeToString(MarshalPrivateKey(k))
                   /\ DecodeString(stdout[1]) =
                         [ok |-> TRUE, val |-> MarshalPrivateKey(k)]
                   /\ UnmarshalPrivateKey(DecodeString(stdout[1]).val) =
                         [ok |-> TRUE, key |-> k]
    /\ \A k \in Keys :
          (identityPath = "load"
              /\ serveFlagsPK = EncodeToString(MarshalPrivateKey(k)))
          => /\ priv = k
             /\ serveErr \notin {Wrap(Err("Base64")), Wrap(Err("KeyFormat"))}
             /\ (hostState # "none" => hostPriv = k)

C14_Witness ==
    /\ identityPath = "load"
    /\ serveFlagsPK = EncodeToString(MarshalPrivateKey(1))
    /\ priv = 1
    /\ hostState = "open"
    /\ hostPriv = 1
    /\ serviceStarted

\* The two stages of parseAddrs on one element.
\* the direct parse of a fails, a splits as host:port, the re-rendered form
\* does not parse
FallbackFails(a) ==
    /\ ~NewMultiaddr(a).ok
    /\ SplitHostPort(a).ok
    /\ ~NewMultiaddr(SprintfIP4TCP(DefaultHost(SplitHostPort(a).host),
                                   SplitHostPort(a).port)).ok

\* neither stage can be attempted on a: the loop returns at this element
Unsplittable(a) == ~NewMultiaddr(a).ok /\ ~SplitHostPort(a).ok

\* element i is processed: no earlier element made the loop return
Processed(i) == \A j \in 1..(i - 1) : ~Unsplittable(Laddrs[j])

\* the result of the element a: stage 1 if it succeeds, stage 2 otherwise
ElementResult(a) ==
    IF NewMultiaddr(a).ok THEN NewMultiaddr(a).val
    ELSE IF SplitHostPort(a).ok
    THEN NewMultiaddr(SprintfIP4TCP(
             IF SplitHostPort(a).host = <<>> THEN <<"127.0.0.1">>
             ELSE SplitHostPort(a).host,
             SplitHostPort(a).port)).val
    ELSE NilMaddr

\* every processed element holds the result of its own two stages
C15_ResultsPerElement ==
    ParseAddrsDone
    => \A i \in 1..Len(Laddrs) :
          Processed(i) => listeners[i] = ElementResult(Laddrs[i])

(***************************************************************************)
(* C15.  Per element, the direct parse wins and the host:port fallback     *)
(* (empty host replaced by 127.0.0.1) is used only when it fails; the      *)
(* error left by the failed fallback of element i is the outcome of the    *)
(* call and is not overwritten by the processing of element i+1.           *)
(***************************************************************************)
C15_ElementPrecedence ==
    /\ C15_ResultsPerElement
    /\ (ParseAddrsDone
           /\ \E i \in 1..Len(Laddrs) : Processed(i) /\ FallbackFails(Laddrs[i]))
          => serveErr = Wrap(MultiaddrError)

\* process.Run has returned and so has every task
AllReturned == RunReturned /\ sigPc = "returned" /\ rootPc = "returned"

(***************************************************************************)
(* C16 as stated.  In every execution, once a task of the group has        *)
(* returned, every other task's execute eventually returns and             *)
(* process.Run eventually returns, provided the calls that open and close  *)
(* the host and the storage return (libp2p.New does not panic).            *)
(***************************************************************************)
C16_ShutdownCompletes == SomeReturned ~> (AllReturned \/ servePc = "panicked")

(***************************************************************************)
(* C16 amended.  Once a task of the group has returned, either every       *)
(* other task's execute eventually returns and process.Run eventually      *)
(* returns, or flag parsing in the root command has ended the process      *)
(* before with status 2 (same proviso on the host and storage calls).      *)
(***************************************************************************)
C16_ShutdownCompletesOrExits ==
    SomeReturned ~> \/ AllReturned
                    \/ servePc = "panicked"
                    \/ (Exited /\ exitCode = 2 /\ rootPc = "start")

C16_Witness ==
    /\ rootCancelled
    /\ interruptCount["root"] = 1
    /\ FirstTask = "sig"
    /\ servePc = "openHost"
    /\ ~Exited

\* The root scope and the scope of serve in one state.
C17_ScopeState ==
    /\ rootCancelCalls <= 2
    /\ RunReturned => rootCancelled
    /\ rootCancelCalls = 2 => rootCancelled /\ Exited
    /\ (serveScope # "none" /\ rootCancelled) => serveCtxDone

\* one step of the scopes: a cancelled scope stays cancelled
C17_ScopeStep ==
    /\ rootCancelled => rootCancelled'
    /\ rootCancelCalls' \in {rootCancelCalls, rootCancelCalls + 1}
    /\ serveCtxDone => serveCtxDone'

(***************************************************************************)
(* C17.  The root scope goes from active to cancelled at most once per     *)
(* run, once during a shutdown, and never back; the further calls of       *)
(* cancel (the interrupt of the root command, the deferred cancel of main) *)
(* change nothing; the scope of serve is cancelled whenever the root       *)
(* scope is.                                                               *)
(***************************************************************************)
C17_CancelledOnce == [][C17_ScopeStep /\ C17_ScopeState']_vars

C17_Witness ==
    /\ rootCancelCalls = 2
    /\ rootCancelled
    /\ Exited
    /\ exitCode = 0

(***************************************************************************)
(* C18.  The root scope is cancelled only by the interrupt of the root     *)
(* command or after process.Run returned, hence only after a task has      *)
(* returned: the signal watcher that returns first returns a signal error  *)
(* and never context.Canceled, a fully started serve never returns before  *)
(* another task has, and process.Run never returns context.Canceled.       *)
(***************************************************************************)
C18_NoCancelBeforeFirstReturn ==
    /\ rootCancelled => SomeReturned /\ (interruptCount["root"] = 1 \/ RunReturned)
    /\ sigScopeCancelled => SomeReturned /\ interruptCount["sig"] = 1
    /\ SomeReturned => FirstErr \notin {Canceled, Wrap(Canceled)}
    /\ (SomeReturned /\ FirstTask = "sig") => FirstErr = SignalError
    /\ (serviceStarted /\ servePc \in {"unwind", "returned"})
          => SomeReturned /\ FirstTask = "sig"
    /\ groupPc # "wait_first" => runErr # Canceled

C18_Witness ==
    /\ RunReturned
    /\ FirstTask = "sig"
    /\ FirstErr = SignalError
    /\ errors[2] = [task |-> "root", err |-> Wrap(Canceled)]
    /\ fatalLogged

====
